---- MODULE Spec2Model ----
(***************************************************************************)
(* Model of the hybrid retrieval and answer engine (src/rag/retriever.py,  *)
(* class DocumentRetriever) and of the /ask and /search handlers of        *)
(* src/rag/api.py.                                                         *)
(*                                                                         *)
(* Numbers.  Python floats are modelled as exact fixed-point integers:     *)
(* a channel score x is the integer x * One, a fusion weight w is the      *)
(* integer w * WeightDen, and a score reported in a result is the integer  *)
(* x * One * WeightDen.  The sets of raw BM25 scores and of distances are  *)
(* chosen so that every division of the code is exact.                     *)
(*                                                                         *)
(* Text.  A text is a sequence of tokens (words); a chunk's content is     *)
(* one token.  Chunk ids are positions 1..N (Python index + 1).            *)
(***************************************************************************)
EXTENDS Integers, Sequences, FiniteSets, TLC

VARIABLES
    vectorstore,     \* the FAISS index: sequence of [content, page]; page 0 = no 'page' metadata
    distance,        \* distance[i]: FAISS distance of the question to vectorstore[i]
    bm25_raw,        \* bm25_raw[i]: raw BM25Okapi score of the question for documents_list[i]
    documents_list,  \* self.documents_list, the corpus cache
    bm25,            \* self.bm25 is not None
    use_hybrid,      \* self.use_hybrid
    top_k,           \* self.top_k
    llm_provider,    \* self.llm_provider
    model_name,      \* self.model_name
    weights,         \* self.bm25_weight and self.semantic_weight, in units of 1/WeightDen
    disk,            \* the index saved at index_path, with the question's distances to it
    retriever,       \* api.py global retriever: number of the live engine object, 0 = None
    instances,       \* instances[i]: the i-th engine object constructed (its index and backend)
    environ,         \* os.environ: whether OPENAI_API_KEY is set, and LLM_PROVIDER
    etl,             \* a DataNormalizer call (products or vendors): df, loop position, outputs
    req              \* req[r]: the call or request handler r and its locals

vars == <<vectorstore, distance, bm25_raw, documents_list, bm25, use_hybrid,
          top_k, llm_provider, model_name, weights, disk, retriever, instances, environ,
          etl, req>>

\* what a request never writes: the engine but for top_k, and the ETL run
engine == <<vectorstore, distance, bm25_raw, documents_list, bm25, use_hybrid,
            llm_provider, model_name, weights, disk, retriever, instances, environ, etl>>

---------------------------------------------------------------------------
(* Bounds of the model *)

MaxCorpus == 4      \* chunks in the index, ranking specification
MaxK == 2           \* largest requested k
SrvCorpus == 2      \* chunks in the index, server specifications
Excess == 1         \* chunks beyond the enumeration limit, construction specification
MaxIngest == 1      \* documents ingested through /ingest
MaxRows == 2        \* rows of the products DataFrame
MaxVendors == 2     \* records of vendors.jsonl
TieCorpus == 17     \* chunks in the index, tie-break specification

(* Program constants *)

One == 1000             \* the float 1.0 of a channel score
WeightDen == 10         \* denominator of the fusion weights
bm25_weight == 3        \* self.bm25_weight = 0.3
semantic_weight == 7    \* self.semantic_weight = 0.7
DefaultTopK == 3        \* top_k: int = 3
OverFetch == 3          \* initial_k = min(k * 3, ...)
MockContexts == 2       \* contexts[:2]
EnumerateK == 1000      \* similarity_search("", k=1000)
SnippetChars == 200     \* ctx['content'][:200]
EllipsisChars == 3      \* len('...')

RawScores == {-1, 0, 2}     \* raw BM25Okapi scores (negative when idf and epsilon are)
Distances == {0, 3}         \* FAISS L2 distances
Pages == {0, 5}             \* metadata 'page'; 0: the chunk's metadata has no 'page'
SrvRawScores == {0, 2}      \* raw BM25Okapi scores, server specifications
DupContents == {"temp", "porta"}    \* contents of a corpus with repeated chunks
ContentNames == <<"temp", "porta", "peso", "cabo", "fonte", "rede">>  \* content of chunk i

ContentChars == <<201, 200, 150, 2400, 199, 1>>     \* len(content) of chunk content i

Unit == One * WeightDen     \* a reported score of 1.0

Min(a, b) == IF a <= b THEN a ELSE b

Range(s) == {s[i] : i \in DOMAIN s}

---------------------------------------------------------------------------
(* Ordering helpers *)

\* list.sort(key=lambda x: x[1], reverse=True) on a list of pairs: stable,
\* descending by the second component
RECURSIVE InsertDesc(_, _)
InsertDesc(x, s) ==
    IF s = <<>> THEN <<x>>
    ELSE IF Head(s)[2] >= x[2] THEN <<Head(s)>> \o InsertDesc(x, Tail(s))
    ELSE <<x>> \o s

RECURSIVE SortDesc(_)
SortDesc(s) ==
    IF s = <<>> THEN <<>>
    ELSE InsertDesc(s[Len(s)], SortDesc(SubSeq(s, 1, Len(s) - 1)))

\* ascending by the second component, stable
RECURSIVE InsertAsc(_, _)
InsertAsc(x, s) ==
    IF s = <<>> THEN <<x>>
    ELSE IF Head(s)[2] <= x[2] THEN <<Head(s)>> \o InsertAsc(x, Tail(s))
    ELSE <<x>> \o s

RECURSIVE SortAsc(_)
SortAsc(s) ==
    IF s = <<>> THEN <<>>
    ELSE InsertAsc(s[Len(s)], SortAsc(SubSeq(s, 1, Len(s) - 1)))

\* np.argsort(scores): ids ascending by score; numpy sorts arrays this small by
\* insertion, so equal scores keep ascending id order
argsort(scores) ==
    LET sorted == SortAsc([i \in 1..Len(scores) |-> <<i, scores[i]>>])
    IN [j \in 1..Len(sorted) |-> sorted[j][1]]

(* A Python set of ints, as CPython keeps it: an open-addressing hash table
   [mask, slots], slots[s] the key stored in slot s and 0 an empty slot.  The
   keys are chunk ids, the hash of id i is the Python index i - 1.  Iterating
   a set walks the slots in ascending order. *)

EmptySet(mask) == [mask |-> mask, slots |-> [s \in 0..mask |-> 0]]

Used(t) == Cardinality({s \in 0..t.mask : t.slots[s] # 0})

\* for key in so: the keys in slot order
Iterate(t) ==
    SelectSeq([s \in 1..(t.mask + 1) |-> t.slots[s - 1]], LAMBDA key : key # 0)

\* the first free slot on the probe sequence of a hash: up to 9 slots in a row
\* after slot i when they fit in the table, then i = (5 i + 1 + perturb) & mask
\* with perturb shifted right by 5
RECURSIVE FreeSlot(_, _, _)
FreeSlot(t, i, perturb) ==
    LET probes == IF i + 9 <= t.mask THEN 9 ELSE 0
        free == {s \in i..(i + probes) : t.slots[s] = 0}
    IN IF free # {} THEN CHOOSE s \in free : \A u \in free : s <= u
       ELSE FreeSlot(t, (i * 5 + 1 + (perturb \div 32)) % (t.mask + 1), perturb \div 32)

\* set_insert_clean on each key of a sequence of keys not yet in the table
RECURSIVE InsertClean(_, _)
InsertClean(t, keys) ==
    IF keys = <<>> THEN t
    ELSE LET h == Head(keys) - 1
         IN InsertClean([t EXCEPT !.slots[FreeSlot(t, h % (t.mask + 1), h)] = Head(keys)],
                        Tail(keys))

\* set_table_resize: the smallest power of two above minused, from 8
RECURSIVE TableSize(_, _)
TableSize(size, minused) == IF size > minused THEN size ELSE TableSize(2 * size, minused)

set_table_resize(t, minused) == InsertClean(EmptySet(TableSize(8, minused) - 1), Iterate(t))

\* set_add_entry on each key of a sequence: a key already present is left
\* where it is; the table is resized once it is 3/5 full
RECURSIVE AddEntries(_, _)
AddEntries(t, keys) ==
    IF keys = <<>> THEN t
    ELSE IF \E s \in 0..t.mask : t.slots[s] = Head(keys) THEN AddEntries(t, Tail(keys))
    ELSE LET u == InsertClean(t, <<Head(keys)>>)
         IN AddEntries(IF Used(u) * 5 < u.mask * 3 THEN u ELSE set_table_resize(u, Used(u) * 4),
                       Tail(keys))

\* set(keys) for the keys of a dict, in insertion order
SetOf(keys) == AddEntries(EmptySet(7), keys)

\* set_merge: so |= other
set_merge(so, other) ==
    IF Used(other) = 0 THEN so
    ELSE LET grown == IF (Used(so) + Used(other)) * 5 >= so.mask * 3
                      THEN set_table_resize(so, (Used(so) + Used(other)) * 2)
                      ELSE so
         IN IF Used(grown) = 0 /\ grown.mask = other.mask THEN other
            ELSE IF Used(grown) = 0 THEN InsertClean(grown, Iterate(other))
            ELSE AddEntries(grown, Iterate(other))

\* a | b: a copy of a, then merged with b
set_or(a, b) == set_merge(set_merge(EmptySet(7), a), b)

---------------------------------------------------------------------------
(* Retrieval channels *)

\* doc.metadata.get('page', 'N/A') as it is rendered in text
PageField(doc) == IF doc.page = 0 THEN "N/A" ELSE ToString(doc.page)

\* scores / scores.max() when scores.max() > 0, else the raw scores
Normalize(raw) ==
    LET n == Len(raw)
        mx == IF n = 0 THEN 0 ELSE CHOOSE m \in Range(raw) : \A x \in Range(raw) : x <= m
    IN IF mx > 0 THEN [i \in 1..n |-> (raw[i] * One) \div mx]
       ELSE [i \in 1..n |-> raw[i] * One]

\* DocumentRetriever._search_bm25: <<id, score>> pairs, best first
_search_bm25(k) ==
    IF ~bm25 THEN <<>>
    ELSE LET scores == Normalize(bm25_raw)
             order == argsort(scores)
             n == Len(order)
             cnt == IF k = 0 THEN n ELSE Min(k, n)       \* [-k:]
         IN [j \in 1..cnt |-> <<order[n - j + 1], scores[order[n - j + 1]]>>]   \* [::-1]

\* vectorstore.similarity_search_with_score(query, k): <<index position, distance>>,
\* the min(k, N) nearest, ascending distance
similarity_search_with_score(k) ==
    LET n == Len(vectorstore)
        order == SortAsc([i \in 1..n |-> <<i, distance[i]>>])
    IN [j \in 1..Min(k, n) |-> order[j]]

\* DocumentRetriever._semantic_search
_semantic_search(k) ==
    LET hits == similarity_search_with_score(k)
    IN [j \in 1..Len(hits) |->
          [idx |-> hits[j][1],
           content |-> vectorstore[hits[j][1]].content,
           page |-> PageField(vectorstore[hits[j][1]]),
           score |-> hits[j][2] * Unit]]

\* the first cache index whose content equals the hit's content (0: none)
CachedIndex(content) ==
    LET m == {i \in 1..Len(documents_list) : documents_list[i].content = content}
    IN IF m = {} THEN 0 ELSE CHOOSE i \in m : \A j \in m : i <= j

\* semantic_scores of _hybrid_search: later hits overwrite earlier ones
SemanticScores(hits) ==
    LET keys == {CachedIndex(vectorstore[hits[j][1]].content) : j \in 1..Len(hits)} \ {0}
        last(i) == CHOOSE j \in 1..Len(hits) :
                      /\ CachedIndex(vectorstore[hits[j][1]].content) = i
                      /\ \A h \in 1..Len(hits) :
                            CachedIndex(vectorstore[hits[h][1]].content) = i => h <= j
    IN [i \in keys |-> One \div (1 + hits[last(i)][2])]

\* the keys of semantic_scores in insertion order (a repeated key is inserted
\* once; a set ignores the repetition)
SemanticKeys(hits) ==
    SelectSeq([j \in 1..Len(hits) |-> CachedIndex(vectorstore[hits[j][1]].content)],
              LAMBDA idx : idx # 0)

\* the keys of {idx: score for idx, score in pairs} in insertion order
DictKeys(pairs) == [j \in 1..Len(pairs) |-> pairs[j][1]]

BM25Scores(pairs) ==
    [i \in {pairs[j][1] : j \in 1..Len(pairs)} |->
        LET j == CHOOSE h \in 1..Len(pairs) :
                    /\ pairs[h][1] = i
                    /\ \A g \in 1..Len(pairs) : pairs[g][1] = i => g <= h
        IN pairs[j][2]]

\* the weights exchanged
HybridScore_swapped(bm25_scores, semantic_scores, idx) ==
    LET bm25_score == IF idx \in DOMAIN bm25_scores THEN bm25_scores[idx] ELSE 0
        semantic_score == IF idx \in DOMAIN semantic_scores THEN semantic_scores[idx] ELSE 0
    IN weights.semantic * bm25_score + weights.bm25 * semantic_score

\* hybrid_score of one candidate
HybridScore(bm25_scores, semantic_scores, idx) ==
    LET bm25_score == IF idx \in DOMAIN bm25_scores THEN bm25_scores[idx] ELSE 0
        semantic_score == IF idx \in DOMAIN semantic_scores THEN semantic_scores[idx] ELSE 0
    IN weights.bm25 * bm25_score + weights.semantic * semantic_score

\* no over-fetch: each channel asked for k candidates
InitialK_no_overfetch(k) == Min(k, Len(documents_list))

\* initial_k = min(k * 3, len(self.documents_list))
InitialK(k) == Min(k * OverFetch, Len(documents_list))

\* the sorted (idx, hybrid_score) list of _hybrid_search
HybridRanking(k) ==
    LET initial_k == InitialK(k)
        bm25_scores == BM25Scores(_search_bm25(initial_k))
        semantic_scores == SemanticScores(similarity_search_with_score(initial_k))
        all_indices == set_or(SetOf(DictKeys(_search_bm25(initial_k))),
                              SetOf(SemanticKeys(similarity_search_with_score(initial_k))))
        order == Iterate(all_indices)
        hybrid_scores == [j \in 1..Len(order) |->
                            <<order[j], HybridScore(bm25_scores, semantic_scores, order[j])>>]
    IN SortDesc(hybrid_scores)

\* the whole ranking returned, hybrid_scores not cut to [:k]
_hybrid_search_uncut(k) ==
    LET ranked == HybridRanking(k)
    IN [j \in 1..Len(ranked) |->
          [idx |-> ranked[j][1],
           content |-> documents_list[ranked[j][1]].content,
           page |-> PageField(documents_list[ranked[j][1]]),
           score |-> ranked[j][2]]]

\* DocumentRetriever._hybrid_search
_hybrid_search(k) ==
    LET ranked == HybridRanking(k)
    IN [j \in 1..Min(k, Len(ranked)) |->
          [idx |-> ranked[j][1],
           content |-> documents_list[ranked[j][1]].content,
           page |-> PageField(documents_list[ranked[j][1]]),
           score |-> ranked[j][2]]]

\* k ignored in favour of the shared self.top_k
search_shared_k(k) ==
    IF use_hybrid /\ bm25 THEN _hybrid_search(top_k) ELSE _semantic_search(top_k)

\* DocumentRetriever.search with an explicit k
search(k) ==
    IF use_hybrid /\ bm25 THEN _hybrid_search(k) ELSE _semantic_search(k)

---------------------------------------------------------------------------
(* Answer text *)

Digits == {ToString(n) : n \in 0..9}

\* str.lower() on the tokens that have an upper-case letter
Lower(tok) ==
    CASE tok = "Página" -> "página"
      [] tok = "(Página" -> "(página"
      [] tok = "Conforme" -> "conforme"
      [] tok = "Baseado" -> "baseado"
      [] tok = "[NOTA]" -> "[nota]"
      [] tok = "N/A" -> "n/a"
      [] OTHER -> tok

\* the tokens a citation pattern can start at: 'página', 'pág.', 'p.' and the
\* bracketed forms, which end with 'página'
CitationWords == {"página", "(página", "[página", "pág.", "p."}

\* any(re.search(pattern, answer.lower()) for pattern in citation_patterns)
has_citation(answer) ==
    \E i \in 1..(Len(answer) - 1) :
        /\ Lower(answer[i]) \in CitationWords
        /\ Lower(answer[i + 1]) \in Digits

\* DocumentRetriever._validate_citations
_validate_citations(answer, sources) ==
    IF sources = <<>> THEN answer
    ELSE IF ~has_citation(answer)
         THEN <<"Conforme", "página", sources[1].page>> \o answer
         ELSE answer

\* DocumentRetriever._call_mock, the definition in force (the second one)
RECURSIVE MockInfo(_)
MockInfo(ctxs) ==
    IF ctxs = <<>> THEN <<>>
    ELSE <<"Conforme", "documentação", "(Página", Head(ctxs).page, Head(ctxs).content>>
         \o MockInfo(Tail(ctxs))

_call_mock(contexts) ==
    <<"Baseado">> \o MockInfo(SubSeq(contexts, 1, Min(MockContexts, Len(contexts))))
    \o <<"[NOTA]">>

\* texts a remote model can return
LLMAnswers == {<<"resposta">>, <<"ver", "Página", "2">>}

\* the ways each provider's call can fail
Failures(provider) ==
    CASE provider = "mock" -> {}
      [] provider = "ollama" -> {"ConnectionFailure", "Timeout", "AuthFailure"}
      [] provider = "openai" -> {"ConnectionFailure", "Timeout", "AuthFailure"}
      [] OTHER -> {"UnsupportedBackend"}

\* the texts each provider's call can return
Successes(provider, contexts) ==
    CASE provider = "mock" -> {_call_mock(contexts)}
      [] provider = "ollama" -> LLMAnswers
      [] provider = "openai" -> LLMAnswers
      [] OTHER -> {}

\* len(content)
CharLen(content) ==
    ContentChars[CHOOSE i \in DOMAIN ContentNames : ContentNames[i] = content]

\* content[:200] + '...' if len(content) > 200 else content: the content the
\* snippet is cut from, the characters taken from it, and the appended '...'
Snippet(content) ==
    IF CharLen(content) > SnippetChars
    THEN [of |-> content, chars |-> Min(SnippetChars, CharLen(content)), ellipsis |-> TRUE]
    ELSE [of |-> content, chars |-> CharLen(content), ellipsis |-> FALSE]

\* len(snippet)
SnippetLen(snippet) == snippet.chars + (IF snippet.ellipsis THEN EllipsisChars ELSE 0)

\* the 'sources' list of ask
FormatSources(contexts) ==
    [j \in 1..Len(contexts) |->
        [page |-> contexts[j].page, snippet |-> Snippet(contexts[j].content),
         score |-> contexts[j].score]]

NotFound == <<"Nenhum", "documento">>

---------------------------------------------------------------------------
(* Engine construction *)

\* the except branch without self.use_hybrid = False
_prepare_bm25_flag_kept(index, enumerated) ==
    LET all_docs == SubSeq(index, 1, Min(EnumerateK, Len(index)))
    IN IF ~enumerated THEN <<(<<>>), FALSE, TRUE>>
       ELSE IF all_docs = <<>> THEN <<(<<>>), FALSE, TRUE>>
       ELSE <<all_docs, TRUE, TRUE>>

\* DocumentRetriever._prepare_bm25: <<documents_list, bm25, use_hybrid>> after it.
\* enumerated: similarity_search("", k=1000) returned; BM25Okapi([]) divides by zero.
\* The cache lists the chunks in the order that search returns them; the model
\* numbers the index in that order, so the cache is a prefix of the index.
_prepare_bm25(index, enumerated) ==
    LET all_docs == SubSeq(index, 1, Min(EnumerateK, Len(index)))
    IN IF ~enumerated THEN <<(<<>>), FALSE, FALSE>>
       ELSE IF all_docs = <<>> THEN <<(<<>>), FALSE, FALSE>>
       ELSE <<all_docs, TRUE, TRUE>>

\* DocumentRetriever._load_index after the index is loaded
_load_index(index, hybrid, enumerated) ==
    IF hybrid THEN _prepare_bm25(index, enumerated) ELSE <<(<<>>), FALSE, FALSE>>

Providers == {"mock", "ollama", "openai", "bard"}

\* the indexes of n chunks with the given pages
Indexes(n, pages) ==
    {[i \in 1..n |-> [content |-> ContentNames[i], page |-> pg[i]]] : pg \in [1..n -> pages]}

\* the indexes of n chunks whose contents are drawn from names: chunks cut from
\* repeated text (a page header, a repeated table row) have equal content
IndexesOf(n, pages, names) ==
    {[i \in 1..n |-> [content |-> c[i], page |-> pg[i]]] :
        c \in [1..n -> names], pg \in [1..n -> pages]}

\* no normalize_products call is running
NoEtl == [pc |-> "none", df |-> <<>>, i |-> 0, normalized |-> <<>>,
          clean_data |-> <<>>, quarantine_data |-> <<>>, products_processed |-> -1]

\* an environment in which lifespan selects the given provider: OPENAI_API_KEY
\* is set for "openai", else it is unset and LLM_PROVIDER names the provider
\* (LLM_PROVIDER unset reads as "mock")
EnvOf(provider) ==
    [OPENAI_API_KEY |-> provider = "openai",
     LLM_PROVIDER |-> IF provider = "openai" THEN "mock" ELSE provider]

\* the server after lifespan: DocumentRetriever(llm_provider=..., model_name=
\* os.getenv("OPENAI_MODEL", "gpt-3.5-turbo")) on an index and a question's
\* channel values
Constructed(index, dist, raw, hybrid, enumerated, provider) ==
    LET built == _load_index(index, hybrid, enumerated)
    IN /\ vectorstore = index
       /\ distance = dist
       /\ documents_list = built[1]
       /\ bm25 = built[2]
       /\ use_hybrid = built[3]
       /\ bm25_raw = IF built[2] THEN raw ELSE <<>>
       /\ top_k = DefaultTopK
       /\ llm_provider = provider
       /\ model_name = "gpt-3.5-turbo"
       /\ weights = [bm25 |-> bm25_weight, semantic |-> semantic_weight]
       /\ disk = [vectorstore |-> index, distance |-> dist]
       /\ retriever = 1
       /\ instances = <<[vectorstore |-> index, llm_provider |-> provider,
                         model_name |-> "gpt-3.5-turbo"]>>
       /\ environ = EnvOf(provider)
       /\ etl = NoEtl

\* api.py at import: retriever = None, no engine object exists
NoEngine ==
    /\ vectorstore = <<>>
    /\ distance = <<>>
    /\ documents_list = <<>>
    /\ bm25 = FALSE
    /\ use_hybrid = FALSE
    /\ bm25_raw = <<>>
    /\ top_k = 0
    /\ llm_provider = "none"
    /\ model_name = "none"
    /\ weights = [bm25 |-> 0, semantic |-> 0]
    /\ retriever = 0
    /\ instances = <<>>

\* a long document: two chunks a page, the contents repeating
LongIndex(n) ==
    [i \in 1..n |-> [content |-> ContentNames[((i - 1) % Len(ContentNames)) + 1],
                     page |-> ((i - 1) \div 2) + 1]]

\* a document of n chunks, one a page, no two with the same text
NumberedIndex(n) == [i \in 1..n |-> [content |-> ToString(i), page |-> i]]

---------------------------------------------------------------------------
(* Calls and request handlers *)

Handlers == {1, 2}

Idle == [kind |-> "none", pc |-> "idle", self |-> 0,
         k |-> 0, original_top_k |-> 0, used_k |-> 0, initial_k |-> 0,
         contexts |-> <<>>, answer |-> <<>>, sources |-> <<>>,
         primary |-> "none", fallback |-> FALSE, failure |-> "none",
         ask |-> "none", status |-> "none",
         bm25_scores |-> <<>>, semantic_scores |-> <<>>, hybrid_scores |-> <<>>]

\* retriever = DocumentRetriever(llm_provider=provider, use_hybrid=hybrid) on the
\* index at index_path; raw: the question's BM25Okapi scores on the new cache
Construct(hybrid, enumerated, raw, provider) ==
    LET built == _load_index(disk.vectorstore, hybrid, enumerated)
    IN /\ retriever = 0
       /\ vectorstore' = disk.vectorstore
       /\ distance' = disk.distance
       /\ documents_list' = built[1]
       /\ bm25' = built[2]
       /\ use_hybrid' = built[3]
       /\ bm25_raw' = IF built[2] THEN [i \in 1..Len(built[1]) |-> raw[i]] ELSE <<>>
       /\ top_k' = DefaultTopK
       /\ llm_provider' = provider
       /\ model_name' = "llama3.1"
       /\ weights' = [bm25 |-> bm25_weight, semantic |-> semantic_weight]
       /\ retriever' = 1
       /\ instances' = <<[vectorstore |-> disk.vectorstore, llm_provider |-> provider,
                          model_name |-> "llama3.1"]>>
       /\ req' = [req EXCEPT ![2] = [Idle EXCEPT !.kind = "init", !.pc = "done",
                     !.failure = IF ~hybrid THEN "none"
                                 ELSE IF ~enumerated THEN "enumerate"
                                 ELSE IF disk.vectorstore = <<>> THEN "empty"
                                 ELSE "none"]]
       /\ UNCHANGED <<disk, environ, etl>>

\* /ask or /search while retriever is None: HTTP 503
Unavailable(r, kind) ==
    /\ retriever = 0
    /\ req[r].pc \in {"idle", "done"}
    /\ req' = [req EXCEPT ![r] = [Idle EXCEPT !.kind = kind, !.status = "503", !.pc = "done"]]
    /\ UNCHANGED <<engine, top_k>>

\* POST /ask accepted (api.py: QuestionRequest, top_k in 1..10; retriever is loaded)
AskBegin(r, k) ==
    /\ retriever # 0
    /\ req[r].pc \in {"idle", "done"}
    /\ req' = [req EXCEPT ![r] = [Idle EXCEPT !.kind = "ask", !.pc = "save", !.k = k]]
    /\ UNCHANGED <<engine, top_k>>

\* original_top_k = retriever.top_k
AskSave(r) ==
    /\ req[r].pc = "save"
    /\ req' = [req EXCEPT ![r].original_top_k = top_k, ![r].pc = "set"]
    /\ UNCHANGED <<engine, top_k>>

\* retriever.top_k = request.top_k
AskSet(r) ==
    /\ req[r].pc = "set"
    /\ top_k' = req[r].k
    /\ req' = [req EXCEPT ![r].pc = "search"]
    /\ UNCHANGED engine

\* the channels whose call may raise during search
SearchFailures == IF use_hybrid /\ bm25 THEN {"vector", "lexical"} ELSE {"vector"}

\* no 'if not contexts' return: generation runs on an empty context list
AskSearch_no_short_circuit(r) ==
    /\ req[r].pc = "search"
    /\ \/ \E f \in SearchFailures :
            req' = [req EXCEPT ![r].self = retriever, ![r].failure = f, ![r].used_k = top_k,
                               ![r].ask = "raised", ![r].status = "500", ![r].pc = "done"]
       \/ req' = [req EXCEPT ![r].self = retriever, ![r].used_k = top_k,
                             ![r].contexts = search(top_k), ![r].pc = "generate"]
    /\ UNCHANGED <<engine, top_k>>

\* retriever.ask(question) is entered on the live engine object, which is self
\* until ask returns.  ask: contexts = self.search(question), k read from
\* self.top_k; a raising channel leaves ask and is caught by the handler's
\* except (HTTP 500, top_k not restored)
AskSearch(r) ==
    /\ req[r].pc = "search"
    /\ \/ \E f \in SearchFailures :
            req' = [req EXCEPT ![r].self = retriever, ![r].failure = f, ![r].used_k = top_k,
                               ![r].ask = "raised", ![r].status = "500", ![r].pc = "done"]
       \/ LET contexts == search(top_k)
          IN IF contexts = <<>>
             THEN req' = [req EXCEPT ![r].self = retriever, ![r].used_k = top_k,
                                     ![r].answer = NotFound,
                                     ![r].ask = "returned", ![r].pc = "restore"]
             ELSE req' = [req EXCEPT ![r].self = retriever, ![r].used_k = top_k,
                                     ![r].contexts = contexts, ![r].pc = "generate"]
    /\ UNCHANGED <<engine, top_k>>

\* no try/except around _generate_answer: a backend failure leaves ask
AskGenerate_uncaught(r) ==
    /\ req[r].pc = "generate"
    /\ \/ \E text \in Successes(instances[req[r].self].llm_provider, req[r].contexts) :
            req' = [req EXCEPT ![r].answer = text, ![r].primary = "ok", ![r].pc = "finish"]
       \/ \E f \in Failures(instances[req[r].self].llm_provider) :
            req' = [req EXCEPT ![r].primary = f, ![r].ask = "raised",
                               ![r].status = "500", ![r].pc = "done"]
    /\ UNCHANGED <<engine, top_k>>

\* ask: answer = self._generate_answer(prompt, contexts), on self's backend
AskGenerate(r) ==
    /\ req[r].pc = "generate"
    /\ \/ \E text \in Successes(instances[req[r].self].llm_provider, req[r].contexts) :
            req' = [req EXCEPT ![r].answer = text, ![r].primary = "ok", ![r].pc = "finish"]
       \/ \E f \in Failures(instances[req[r].self].llm_provider) :
            req' = [req EXCEPT ![r].primary = f, ![r].pc = "fallback"]
    /\ UNCHANGED <<engine, top_k>>

\* the except branch also switching the engine to the mock backend for good
AskFallback_degrades(r) ==
    /\ req[r].pc = "fallback"
    /\ req' = [req EXCEPT ![r].answer = _call_mock(req[r].contexts), ![r].fallback = TRUE,
                          ![r].pc = "finish"]
    /\ llm_provider' = "mock"
    /\ UNCHANGED <<vectorstore, distance, bm25_raw, documents_list, bm25, use_hybrid,
                   model_name, weights, disk, retriever, instances, environ, etl, top_k>>

\* ask: except Exception: answer = self._call_mock(prompt, contexts)
AskFallback(r) ==
    /\ req[r].pc = "fallback"
    /\ req' = [req EXCEPT ![r].answer = _call_mock(req[r].contexts), ![r].fallback = TRUE,
                          ![r].pc = "finish"]
    /\ UNCHANGED <<engine, top_k>>

\* ask: _validate_citations, the sources list, return
AskFinish(r) ==
    /\ req[r].pc = "finish"
    /\ req' = [req EXCEPT ![r].answer = _validate_citations(req[r].answer, req[r].contexts),
                          ![r].sources = FormatSources(req[r].contexts),
                          ![r].ask = "returned", ![r].pc = "restore"]
    /\ UNCHANGED <<engine, top_k>>

\* retriever.top_k = original_top_k
AskRestore(r) ==
    /\ req[r].kind = "ask"
    /\ req[r].pc = "restore"
    /\ top_k' = req[r].original_top_k
    /\ req' = [req EXCEPT ![r].pc = "respond"]
    /\ UNCHANGED engine

\* QuestionResponse(...): Source.page is an int field, so 'N/A' fails validation
AskRespond(r) ==
    /\ req[r].pc = "respond"
    /\ LET bad == \E j \in 1..Len(req[r].sources) : req[r].sources[j].page \notin Digits
       IN req' = [req EXCEPT ![r].status = IF bad THEN "500" ELSE "200", ![r].pc = "done"]
    /\ UNCHANGED <<engine, top_k>>

\* a direct call of the engine: retriever.ask(question) when k = 0, else
\* retriever.ask(question, k); ask is declared ask(self, question), so a second
\* argument is a TypeError raised before the body runs
CallAsk(r, k) ==
    /\ retriever # 0
    /\ req[r].pc \in {"idle", "done"}
    /\ IF k = 0
       THEN req' = [req EXCEPT ![r] = [Idle EXCEPT !.kind = "call", !.pc = "search"]]
       ELSE req' = [req EXCEPT ![r] = [Idle EXCEPT !.kind = "call", !.k = k,
                                        !.failure = "TypeError", !.ask = "raised",
                                        !.pc = "done"]]
    /\ UNCHANGED <<engine, top_k>>

\* ask has returned to its direct caller
CallReturn(r) ==
    /\ req[r].kind = "call"
    /\ req[r].pc = "restore"
    /\ req' = [req EXCEPT ![r].pc = "done"]
    /\ UNCHANGED <<engine, top_k>>

\* GET /search accepted
SearchBegin(r, k) ==
    /\ retriever # 0
    /\ req[r].pc \in {"idle", "done"}
    /\ req' = [req EXCEPT ![r] = [Idle EXCEPT !.kind = "search", !.pc = "run", !.k = k]]
    /\ UNCHANGED <<engine, top_k>>

\* results = retriever.search(query, k=k), or HTTP 500 when it raises
SearchRun(r) ==
    /\ req[r].pc = "run"
    /\ \/ \E f \in SearchFailures :
            req' = [req EXCEPT ![r].self = retriever, ![r].failure = f,
                               ![r].used_k = req[r].k,
                               ![r].status = "500", ![r].pc = "done"]
       \/ req' = [req EXCEPT ![r].self = retriever, ![r].used_k = req[r].k,
                             ![r].contexts = search(req[r].k),
                             ![r].status = "200", ![r].pc = "done"]
    /\ UNCHANGED <<engine, top_k>>

\* a direct call retriever.search(query, k), followed through _hybrid_search
RankBegin(r, k) ==
    /\ retriever # 0
    /\ req[r].pc \in {"idle", "done"}
    /\ req' = [req EXCEPT ![r] = [Idle EXCEPT !.kind = "rank", !.pc = "channels", !.k = k]]
    /\ UNCHANGED <<engine, top_k>>

\* search: the semantic-only branch
RankSemantic(r) ==
    /\ req[r].pc = "channels"
    /\ ~(use_hybrid /\ bm25)
    /\ req' = [req EXCEPT ![r].used_k = req[r].k, ![r].contexts = _semantic_search(req[r].k),
                          ![r].pc = "done"]
    /\ UNCHANGED <<engine, top_k>>

\* _hybrid_search, 1 and 2: the two channels' score maps
RankChannels(r) ==
    /\ req[r].pc = "channels"
    /\ use_hybrid /\ bm25
    /\ LET initial_k == InitialK(req[r].k)
       IN req' = [req EXCEPT
                   ![r].used_k = req[r].k,
                   ![r].initial_k = initial_k,
                   ![r].bm25_scores = BM25Scores(_search_bm25(initial_k)),
                   ![r].semantic_scores =
                       SemanticScores(similarity_search_with_score(initial_k)),
                   ![r].pc = "fuse"]
    /\ UNCHANGED <<engine, top_k>>

\* _hybrid_search, 3 and 4: combine and sort
RankFuse(r) ==
    /\ req[r].pc = "fuse"
    /\ req' = [req EXCEPT ![r].hybrid_scores = HybridRanking(req[r].k), ![r].pc = "format"]
    /\ UNCHANGED <<engine, top_k>>

\* _hybrid_search, 5: the first k as results
RankFormat(r) ==
    /\ req[r].pc = "format"
    /\ req' = [req EXCEPT ![r].contexts = _hybrid_search(req[r].k), ![r].pc = "done"]
    /\ UNCHANGED <<engine, top_k>>

\* the index DocumentIngestor builds from an uploaded PDF of n pages: one
\* chunk a page, page numbers from 1, contents other than the first corpus's
UploadIndex(n) ==
    [i \in 1..n |-> [content |-> ContentNames[SrvCorpus + i], page |-> i]]

\* POST /ingest: the file name check, then the upload is read
IngestBegin(r, pdf) ==
    /\ req[r].pc \in {"idle", "done"}
    /\ retriever <= MaxIngest
    /\ IF pdf
       THEN req' = [req EXCEPT ![r] = [Idle EXCEPT !.kind = "ingest", !.pc = "read"]]
       ELSE req' = [req EXCEPT ![r] = [Idle EXCEPT !.kind = "ingest", !.status = "400",
                                        !.pc = "done"]]
    /\ UNCHANGED <<engine, top_k>>

\* the index of the upload written over the live engine's own index
IngestBuild_in_place(r) ==
    /\ req[r].pc = "read"
    /\ \/ /\ \E f \in {"save", "ingest"} :
                req' = [req EXCEPT ![r].failure = f, ![r].status = "500", ![r].pc = "done"]
          /\ UNCHANGED <<engine, top_k>>
       \/ \E n \in 1..SrvCorpus :
             /\ vectorstore' = UploadIndex(n)
             /\ distance' = [i \in 1..n |-> 3]
             /\ disk' = [vectorstore |-> UploadIndex(n), distance |-> [i \in 1..n |-> 3]]
             /\ req' = [req EXCEPT ![r].pc = "construct"]
             /\ UNCHANGED <<bm25_raw, documents_list, bm25, use_hybrid, llm_provider,
                            model_name, weights, retriever, instances, environ, etl, top_k>>

\* the upload is written to data/temp, then ingestor = DocumentIngestor();
\* ingestor.ingest_document(path): a new index is built from the upload alone
\* and saved at index_path; or writing the upload or the ingestion raises
IngestBuild(r) ==
    /\ req[r].pc = "read"
    /\ \/ /\ \E f \in {"save", "ingest"} :
                req' = [req EXCEPT ![r].failure = f, ![r].status = "500", ![r].pc = "done"]
          /\ UNCHANGED <<engine, top_k>>
       \/ \E n \in 1..SrvCorpus :
             /\ disk' = [vectorstore |-> UploadIndex(n), distance |-> [i \in 1..n |-> 3]]
             /\ req' = [req EXCEPT ![r].pc = "construct"]
             /\ UNCHANGED <<vectorstore, distance, bm25_raw, documents_list, bm25,
                            use_hybrid, llm_provider, model_name, weights, retriever,
                            instances, environ, etl, top_k>>

\* the global name unbound when the constructor raises
IngestSwap_unbinds(r) ==
    /\ req[r].pc = "construct"
    /\ req' = [req EXCEPT ![r].failure = "construct", ![r].status = "500", ![r].pc = "done"]
    /\ retriever' = 0
    /\ UNCHANGED <<vectorstore, distance, bm25_raw, documents_list, bm25, use_hybrid,
                   llm_provider, model_name, weights, disk, instances, environ, etl, top_k>>

\* retriever = DocumentRetriever(llm_provider=os.getenv("LLM_PROVIDER", "mock")):
\* the new object is built from the saved index and then bound to the global
\* name; when the constructor raises, the name keeps the old object
IngestSwap(r) ==
    /\ req[r].pc = "construct"
    /\ \/ /\ req' = [req EXCEPT ![r].failure = "construct", ![r].status = "500",
                                  ![r].pc = "done"]
          /\ UNCHANGED <<engine, top_k>>
       \/ \E enumerated \in BOOLEAN :
             LET built == _load_index(disk.vectorstore, TRUE, enumerated)
                 provider == environ.LLM_PROVIDER
             IN /\ vectorstore' = disk.vectorstore
                /\ distance' = disk.distance
                /\ documents_list' = built[1]
                /\ bm25' = built[2]
                /\ use_hybrid' = built[3]
                /\ bm25_raw' = IF built[2] THEN [i \in 1..Len(built[1]) |-> 2] ELSE <<>>
                /\ top_k' = DefaultTopK
                /\ llm_provider' = provider
                /\ model_name' = "llama3.1"
                /\ weights' = [bm25 |-> bm25_weight, semantic |-> semantic_weight]
                /\ retriever' = retriever + 1
                /\ instances' = Append(instances, [vectorstore |-> disk.vectorstore,
                                                   llm_provider |-> provider,
                                                   model_name |-> "llama3.1"])
                /\ req' = [req EXCEPT ![r].pc = "unlink"]
                /\ UNCHANGED <<disk, environ, etl>>

\* temp_path.unlink() and the response, or unlink raises (HTTP 500)
IngestFinish(r) ==
    /\ req[r].pc = "unlink"
    /\ \/ req' = [req EXCEPT ![r].status = "200", ![r].pc = "done"]
       \/ req' = [req EXCEPT ![r].failure = "unlink", ![r].status = "500", ![r].pc = "done"]
    /\ UNCHANGED <<engine, top_k>>

Step(r) ==
    \/ \E k \in 1..MaxK : AskBegin(r, k)
    \/ AskSave(r)
    \/ AskSet(r)
    \/ AskSearch(r)
    \/ AskGenerate(r)
    \/ AskFallback(r)
    \/ AskFinish(r)
    \/ AskRestore(r)
    \/ AskRespond(r)
    \/ \E k \in 1..MaxK : SearchBegin(r, k)
    \/ SearchRun(r)

---------------------------------------------------------------------------
(* ETL: DataNormalizer.normalize_products (src/etl/utils.py)

   Values.  A raw numeric cell is [tag, val]: tag "num" and its number, "nan"
   (the cell is missing) or "text" (not a number).  An optional value of a
   normalized row is [some, val]: None has some = FALSE.  A date string is
   [sep, y, m, d], the three numbers joined by sep; sep "nan" is a missing
   cell and sep "None" the value None.  A dimensions string is the sequence
   of its parts between the 'x's, a part being a number or blank.  Prices
   are in cents. *)

Num(v) == [tag |-> "num", val |-> v]
Missing == [tag |-> "nan", val |-> 0]
Blank == [tag |-> "text", val |-> 0]

Some(v) == [some |-> TRUE, val |-> v]
None == [some |-> FALSE, val |-> 0]

Date(sep, y, m, d) == [sep |-> sep, y |-> y, m |-> m, d |-> d]
NoDate == Date("None", 0, 0, 0)
MissingDate == Date("nan", 0, 0, 0)

IsLeap(y) == (y % 4 = 0 /\ y % 100 # 0) \/ y % 400 = 0

DaysIn(y, m) ==
    IF m = 2 THEN (IF IsLeap(y) THEN 29 ELSE 28)
    ELSE IF m \in {4, 6, 9, 11} THEN 30 ELSE 31

\* datetime.strptime(date_str, '%Y-%m-%d') does not raise
strptime(date) ==
    /\ date.sep = "-"
    /\ date.y \in 1..9999
    /\ date.m \in 1..12
    /\ date.d \in 1..DaysIn(date.y, date.m)

\* DataNormalizer._normalize_date
_normalize_date(date) ==
    IF date.sep = "nan" THEN NoDate
    ELSE IF strptime(date) THEN date
    ELSE IF date.sep = "/"
         THEN LET month == Min(date.m, 12)
                  day == IF month = 2 THEN Min(date.d, 28) ELSE Min(date.d, 30)
              IN Date("-", date.y, month, day)
    ELSE NoDate

\* DataNormalizer._parse_dimensions: re.search(r'(\d+)x(\d+)x(\d+)') finds the
\* leftmost three numbers in a row
_parse_dimensions(dims) ==
    LET starts == {i \in 1..(Len(dims) - 2) :
                      \A j \in i..(i + 2) : dims[j].tag = "num"}
    IN IF starts = {}
       THEN [length_mm |-> None, width_mm |-> None, height_mm |-> None]
       ELSE LET i == CHOOSE a \in starts : \A b \in starts : a <= b
            IN [length_mm |-> Some(dims[i].val), width_mm |-> Some(dims[i + 1].val),
                height_mm |-> Some(dims[i + 2].val)]

\* the SKUs and vendor codes of the model, and whether they match the
\* schema's patterns ^[A-Z]{2}-\d{3}$ and ^V-\d{2}$
Skus == {"AB-123", "SKU-999"}
VendorCodes == {"V-01", "V001"}
SkuPattern(sku) == sku = "AB-123"
VendorPattern(code) == code = "V-01"
Categories == {"Router", "Switch", "Camera"}

\* DataNormalizer._generate_deterministic_id: int(md5(sku).hexdigest()[:8], 16)
_generate_deterministic_id(sku) == IF sku = "AB-123" THEN 2893 ELSE 1466

\* DataNormalizer._normalize_product_row: raised, or the normalized row
_normalize_product_row(row) ==
    IF row.product_id.tag = "text"
    THEN [raised |-> TRUE, row |-> <<>>]
    ELSE LET dimensions == _parse_dimensions(row.dimensions_mm)
         IN [raised |-> FALSE,
             row |-> [product_id |-> IF row.product_id.tag = "nan"
                                     THEN _generate_deterministic_id(row.sku)
                                     ELSE row.product_id.val,
                      sku |-> row.sku,
                      model |-> row.model,
                      category |-> row.category,
                      vendor_code |-> row.vendor_code,
                      weight_g |-> IF row.weight_grams.tag = "num"
                                   THEN Some(row.weight_grams.val) ELSE None,
                      msrp_usd |-> IF row.msrp_usd.tag = "num"
                                   THEN Some(row.msrp_usd.val) ELSE None,
                      length_mm |-> dimensions.length_mm,
                      width_mm |-> dimensions.width_mm,
                      height_mm |-> dimensions.height_mm,
                      launch_date |-> _normalize_date(row.launch_date)]]

\* a nullable int column that lets None pass
IntColumn_nulls_pass(v) == ~v.some \/ v.val > 0

\* Column(int, Check.greater_than(0), nullable=True) on the one-row frame: a
\* None makes the column's dtype object, which is not int64, so it fails
IntColumn(v) == v.some /\ v.val > 0

\* Column(float, Check.greater_than_or_equal_to(0), nullable=True), likewise
FloatColumn(v) == v.some /\ v.val >= 0

\* subset_schema.validate(single_row_df) does not raise SchemaError
PRODUCT_SCHEMA(n) ==
    /\ n.product_id > 0
    /\ SkuPattern(n.sku)
    /\ n.category \in Categories
    /\ IntColumn(n.weight_g)
    /\ IntColumn(n.length_mm)
    /\ IntColumn(n.width_mm)
    /\ IntColumn(n.height_mm)
    /\ VendorPattern(n.vendor_code)
    /\ FloatColumn(n.msrp_usd)

\* everything but the ETL run
rag == <<vectorstore, distance, bm25_raw, documents_list, bm25, use_hybrid,
         top_k, llm_provider, model_name, weights, disk, retriever, instances, environ,
         req>>

\* normalize_products, one iteration: normalized_row = self._normalize_product_row(row),
\* or the outer except when it raises
NormalizeRow ==
    /\ etl.pc = "normalize"
    /\ etl.i <= Len(etl.df)
    /\ LET res == _normalize_product_row(etl.df[etl.i])
       IN IF res.raised
          THEN etl' = [etl EXCEPT
                         !.quarantine_data = Append(@, [idx |-> etl.i, row |-> etl.df[etl.i],
                                                        reason |-> "Processing error"]),
                         !.i = @ + 1]
          ELSE etl' = [etl EXCEPT !.normalized = res.row, !.pc = "validate"]
    /\ UNCHANGED rag

\* normalize_products, the same iteration: the schema validates the one-row
\* frame and the row is appended to clean_data, or to quarantine_data on SchemaError
ValidateRow ==
    /\ etl.pc = "validate"
    /\ IF PRODUCT_SCHEMA(etl.normalized)
       THEN etl' = [etl EXCEPT
                      !.clean_data = Append(@, [idx |-> etl.i, row |-> etl.normalized]),
                      !.i = @ + 1, !.pc = "normalize"]
       ELSE etl' = [etl EXCEPT
                      !.quarantine_data = Append(@, [idx |-> etl.i, row |-> etl.df[etl.i],
                                                     reason |-> "Schema validation failed"]),
                      !.i = @ + 1, !.pc = "normalize"]
    /\ UNCHANGED rag

\* return pd.DataFrame(clean_data), pd.DataFrame(quarantine_data)
ReturnFrames ==
    /\ etl.pc = "normalize"
    /\ etl.i > Len(etl.df)
    /\ etl' = [etl EXCEPT !.pc = "returned"]
    /\ UNCHANGED rag

\* generate_report: "products_processed": len(clean_products) + len(quarantine_products)
GenerateReport ==
    /\ etl.pc \in {"returned", "failed"}
    /\ etl' = [etl EXCEPT !.pc = "reported",
                          !.products_processed = Len(etl.clean_data) + Len(etl.quarantine_data)]
    /\ UNCHANGED rag

\* a product row that passes every check
BaseRow ==
    [product_id |-> Num(7), sku |-> "AB-123", model |-> "X1", category |-> "Router",
     vendor_code |-> "V-01", weight_grams |-> Num(500), msrp_usd |-> Num(9999),
     dimensions_mm |-> <<Num(100), Num(50), Num(30)>>,
     launch_date |-> Date("-", 2024, 1, 15)]

\* launch_date cells: valid, "2024-13-45", "2023-02-29", "2024/13/45",
\* "2024/02/30", missing
RawDates ==
    {Date("-", 2024, 1, 15), Date("-", 2024, 13, 45), Date("-", 2023, 2, 29),
     Date("/", 2024, 13, 45), Date("/", 2024, 2, 30), MissingDate}

\* dimensions_mm cells: "100x50x30", "90x60x", "90x60", missing, "0x50x30",
\* "x90x60x10"
RawDims ==
    {<<Num(100), Num(50), Num(30)>>, <<Num(90), Num(60), Blank>>, <<Num(90), Num(60)>>,
     <<>>, <<Num(0), Num(50), Num(30)>>, <<Blank, Num(90), Num(60), Num(10)>>}

\* the rows a products.csv can hold, in the model
Rows ==
    {[BaseRow EXCEPT !.launch_date = d, !.dimensions_mm = m] : d \in RawDates, m \in RawDims}
    \cup {[BaseRow EXCEPT !.product_id = p] : p \in {Missing, Blank, Num(0)}}
    \cup {[BaseRow EXCEPT !.weight_grams = Missing], [BaseRow EXCEPT !.msrp_usd = Missing]}
    \cup {[BaseRow EXCEPT !.product_id = Num(999), !.sku = "SKU-999",
                          !.category = "Electronics", !.vendor_code = "V001",
                          !.launch_date = Date("-", 2024, 13, 45)]}

\* run_pipeline, step 1: products_df = self._load_products_csv() and the call of
\* normalize_products on it; or reading the file raises (no file, no columns)
\* and the except branch sets an empty clean frame and a quarantine frame
\* holding one error record
LoadProducts ==
    /\ etl.pc = "load"
    /\ \/ \E n \in 0..MaxRows : \E df \in [1..n -> Rows] :
             etl' = [etl EXCEPT !.pc = "normalize", !.df = df, !.i = 1]
       \/ etl' = [etl EXCEPT !.pc = "failed",
                             !.quarantine_data =
                                 <<[idx |-> 0, row |-> <<>>, reason |-> "CSV parsing error"]>>]
    /\ UNCHANGED rag

---------------------------------------------------------------------------
(* ETL: DataNormalizer.normalize_vendors (src/etl/utils.py)

   A vendor record is [vendor_code, name, country, support_email]; "nan" in
   vendor_code or name says the record has no such key (NaN in the frame),
   "None" in support_email is a JSON null. *)

\* the vendor codes of the model in str order, the order groupby sorts its keys in
VendorOrder == <<"V-01", "V-02", "V001">>

VendorNames == {"A", "Acme", "Acme Corp", "nan"}

\* len(name); a missing name has no length (NaN, sorted last)
NameLen(name) ==
    CASE name = "A" -> 1
      [] name = "Acme" -> 4
      [] name = "Acme Corp" -> 9
      [] OTHER -> -1

Countries == {"BR", "USA"}

\* len(country)
CountryLen(country) == IF country = "USA" THEN 3 ELSE 2

Emails == {"suporte@acme.com", "None"}

\* the records a vendors.jsonl can hold, in the model
VendorRecords ==
    [vendor_code : Range(VendorOrder) \cup {"nan"}, name : VendorNames,
     country : Countries, support_email : Emails]

\* one group a record, duplicates not merged
groupby_per_record(df) ==
    LET keyed == SelectSeq(df, LAMBDA v : v.vendor_code # "nan")
    IN [j \in 1..Len(keyed) |-> keyed[j].vendor_code]

\* df.groupby('vendor_code'): the distinct codes present, sorted; records
\* without a code (NaN key) belong to no group
groupby(df) ==
    SelectSeq(VendorOrder, LAMBDA c : \E j \in 1..Len(df) : df[j].vendor_code = c)

\* the rows of one group, in frame order
GroupRows(df, code) == SelectSeq(df, LAMBDA v : v.vendor_code = code)

\* the frame has the column: some record has the key
HasColumn(df, col) == \E j \in 1..Len(df) : df[j][col] # "nan"

\* DataNormalizer._consolidate_vendor: the rows that can come first when the
\* group is sorted by len(name) descending (missing names last; the order
\* among equal lengths is the sort's)
Primaries(group) ==
    {group[a] : a \in {b \in 1..Len(group) :
                          \A c \in 1..Len(group) : NameLen(group[c].name) <= NameLen(group[b].name)}}

\* the dict built from the primary (or only) row of a group
Consolidated(vendor) ==
    [vendor_code |-> vendor.vendor_code, vendor_name |-> vendor.name,
     country |-> vendor.country, support_email |-> vendor.support_email]

\* VENDOR_SCHEMA.validate(vendor_df) does not raise SchemaError
VENDOR_SCHEMA(v) ==
    /\ VendorPattern(v.vendor_code)
    /\ v.vendor_name # "nan" /\ NameLen(v.vendor_name) >= 2
    /\ CountryLen(v.country) = 2
    /\ v.support_email # "None"

\* df = pd.DataFrame(vendors_data); df.groupby('vendor_code'): KeyError when the
\* frame has no such column (no record, or no record with the key)
GroupVendors ==
    /\ etl.pc = "frame"
    /\ etl' = [etl EXCEPT !.pc = IF HasColumn(etl.df, "vendor_code") THEN "group" ELSE "raised"]
    /\ UNCHANGED rag

\* normalize_vendors, one group: the consolidated dict, or the outer except
\* (no 'name' column: KeyError) putting every row of the group in quarantine
ConsolidateVendor ==
    /\ etl.pc = "group"
    /\ etl.i <= Len(groupby(etl.df))
    /\ LET group == GroupRows(etl.df, groupby(etl.df)[etl.i])
       IN IF ~HasColumn(etl.df, "name")
          THEN etl' = [etl EXCEPT
                         !.quarantine_data =
                             @ \o [j \in 1..Len(group) |->
                                      [vendor_code |-> group[j].vendor_code,
                                       reason |-> "Vendor processing error"]],
                         !.i = @ + 1]
          ELSE \E primary \in Primaries(group) :
                  etl' = [etl EXCEPT !.normalized = Consolidated(primary), !.pc = "check"]
    /\ UNCHANGED rag

\* normalize_vendors, the same group: validated with the schema and appended to
\* clean_vendors, or to quarantine_vendors on SchemaError
ValidateVendor ==
    /\ etl.pc = "check"
    /\ IF VENDOR_SCHEMA(etl.normalized)
       THEN etl' = [etl EXCEPT !.clean_data = Append(@, etl.normalized),
                               !.i = @ + 1, !.pc = "group"]
       ELSE etl' = [etl EXCEPT
                      !.quarantine_data =
                          Append(@, [vendor_code |-> etl.normalized.vendor_code,
                                     reason |-> "Vendor validation failed"]),
                      !.i = @ + 1, !.pc = "group"]
    /\ UNCHANGED rag

\* return pd.DataFrame(clean_vendors), pd.DataFrame(quarantine_vendors)
ReturnVendors ==
    /\ etl.pc = "group"
    /\ etl.i > Len(groupby(etl.df))
    /\ etl' = [etl EXCEPT !.pc = "returned"]
    /\ UNCHANGED rag

---------------------------------------------------------------------------
(* Specifications *)

InitServer ==
    /\ \E n \in 0..SrvCorpus : \E index \in Indexes(n, Pages) :
       \E dist \in [1..n -> Distances] : \E hybrid \in BOOLEAN :
       \E enumerated \in (IF hybrid THEN BOOLEAN ELSE {TRUE}) :
       \E raw \in (IF hybrid /\ enumerated THEN [1..n -> SrvRawScores] ELSE {<<>>}) :
       \E provider \in Providers :
          Constructed(index, dist, raw, hybrid, enumerated, provider)
    /\ req = [r \in Handlers |-> Idle]

\* the server as it runs: one event loop, and no await inside a handler, so a
\* request is handled to its end before the next one starts
Init == InitServer

Next == Step(1)

Spec == Init /\ [][Next]_vars

\* request-parallel scheduling: handlers of several requests interleave
\* statement by statement on the one shared engine
InitPar ==
    /\ \E index \in Indexes(SrvCorpus, Pages \ {0}) :
       \E dist \in [1..SrvCorpus -> Distances] : \E hybrid \in BOOLEAN :
       \E raw \in (IF hybrid THEN [1..SrvCorpus -> SrvRawScores \ {0}] ELSE {<<>>}) :
       \E provider \in {"mock", "bard"} :
          Constructed(index, dist, raw, hybrid, TRUE, provider)
    /\ req = [r \in Handlers |-> Idle]

NextPar == \E r \in Handlers : Step(r)

SpecPar == InitPar /\ [][NextPar]_vars

\* the ranking pipeline alone: direct search calls on one engine, over every
\* vector of raw lexical scores and distances
InitRank ==
    /\ \E n \in 1..MaxCorpus : \E index \in Indexes(n, Pages \ {0}) :
       \E dist \in [1..n -> Distances] : \E hybrid \in BOOLEAN :
       \E raw \in (IF hybrid THEN [1..n -> RawScores] ELSE {<<>>}) :
          Constructed(index, dist, raw, hybrid, TRUE, "mock")
    /\ req = [r \in Handlers |-> Idle]

NextRank ==
    \/ \E k \in 1..MaxK : RankBegin(1, k)
    \/ RankSemantic(1)
    \/ RankChannels(1)
    \/ RankFuse(1)
    \/ RankFormat(1)

SpecRank == InitRank /\ [][NextRank]_vars

\* the ranking pipeline on a corpus in which chunks may have equal content
InitDup ==
    /\ \E n \in 1..MaxCorpus : \E index \in IndexesOf(n, {5}, DupContents) :
       \E dist \in [1..n -> Distances] : \E hybrid \in BOOLEAN :
       \E raw \in (IF hybrid THEN [1..n -> SrvRawScores] ELSE {<<>>}) :
          Constructed(index, dist, raw, hybrid, TRUE, "mock")
    /\ req = [r \in Handlers |-> Idle]

SpecDup == InitDup /\ [][NextRank]_vars

\* the ranking pipeline on a document of TieCorpus - 1 or TieCorpus chunks: two
\* chunks are equally near the question (distance 0) and have no lexical
\* score, four more chunks are the next nearest, six others carry the
\* lexical scores, all different
InitTie ==
    /\ \E n \in {TieCorpus - 1, TieCorpus} : \E a, b \in {1, 2, 3, n} :
       \E first \in {9, 10} : \E hybrid \in BOOLEAN :
          /\ a < b
          /\ Constructed(NumberedIndex(n),
                         [i \in 1..n |-> IF i \in {a, b} THEN 0
                                         ELSE IF i \in 5..8 THEN <<1, 3, 4, 9>>[i - 4]
                                         ELSE 19],
                         IF hybrid
                         THEN [i \in 1..n |-> IF i \in first..(first + 5)
                                              THEN <<20, 10, 5, 4, 2, 1>>[i - first + 1]
                                              ELSE 0]
                         ELSE <<>>,
                         hybrid, TRUE, "mock")
    /\ req = [r \in Handlers |-> Idle]

SpecTie == InitTie /\ [][NextRank]_vars

\* construction alone: the constructor called on stored indexes of every size
\* around the enumeration limit
InitBuild ==
    /\ NoEngine
    /\ environ = EnvOf("mock")
    /\ etl = NoEtl
    /\ \/ \E n \in 0..SrvCorpus : \E index \in Indexes(n, Pages) :
          \E dist \in [1..n -> Distances] :
             disk = [vectorstore |-> index, distance |-> dist]
       \/ \E n \in (EnumerateK - 1)..(EnumerateK + Excess) :
             disk = [vectorstore |-> LongIndex(n), distance |-> [i \in 1..n |-> 3]]
    /\ req = [r \in Handlers |-> Idle]

NextBuild ==
    \E hybrid \in BOOLEAN : \E enumerated \in (IF hybrid THEN BOOLEAN ELSE {TRUE}) :
    \E raw \in {[i \in 1..Len(disk.vectorstore) |-> v] : v \in SrvRawScores} :
    \E provider \in Providers :
        Construct(hybrid, enumerated, raw, provider)

SpecBuild == InitBuild /\ [][NextBuild]_vars

\* an engine's lifetime: constructed once on the stored index, then serving
\* requests one at a time
InitLife ==
    /\ NoEngine
    /\ environ = EnvOf("mock")
    /\ etl = NoEtl
    /\ \E n \in 0..SrvCorpus : \E index \in Indexes(n, Pages) :
       \E dist \in [1..n -> Distances] :
          disk = [vectorstore |-> index, distance |-> dist]
    /\ req = [r \in Handlers |-> Idle]

NextLife ==
    \/ \E hybrid \in BOOLEAN : \E enumerated \in (IF hybrid THEN BOOLEAN ELSE {TRUE}) :
       \E raw \in [1..Len(disk.vectorstore) -> SrvRawScores] :
       \E provider \in Providers :
           Construct(hybrid, enumerated, raw, provider)
    \/ \E kind \in {"ask", "search"} : Unavailable(1, kind)
    \/ Step(1)

SpecLife == InitLife /\ [][NextLife]_vars

\* the engine called directly, without the HTTP handlers
NextCall ==
    \/ \E k \in 0..MaxK : CallAsk(1, k)
    \/ AskSearch(1)
    \/ AskGenerate(1)
    \/ AskFallback(1)
    \/ AskFinish(1)
    \/ CallReturn(1)

SpecCall == InitServer /\ [][NextCall]_vars

\* the same calls, each statement of a started call eventually executed: ask
\* has no loop and every backend call returns or raises (requests time out)
SpecCallFair == SpecCall /\ WF_vars(NextCall)

\* re-ingestion while requests are served: the /ingest handler runs beside
\* the /ask and /search handlers, statement by statement
InitIngest ==
    /\ \E index \in Indexes(SrvCorpus, {5}) :
       \E dist \in [1..SrvCorpus -> Distances] :
       \E provider \in {"mock", "bard", "openai"} :
          Constructed(index, dist, [i \in 1..SrvCorpus |-> 2], TRUE, TRUE, provider)
    /\ req = [r \in Handlers |-> Idle]

NextIngest ==
    \/ Step(1)
    \/ \E pdf \in BOOLEAN : IngestBegin(2, pdf)
    \/ IngestBuild(2)
    \/ IngestSwap(2)
    \/ IngestFinish(2)

SpecIngest == InitIngest /\ [][NextIngest]_vars

\* normalize_products called on every products DataFrame of up to MaxRows rows
InitEtl ==
    /\ NoEngine
    /\ environ = EnvOf("mock")
    /\ disk = [vectorstore |-> <<>>, distance |-> <<>>]
    /\ req = [r \in Handlers |-> Idle]
    /\ \E n \in 0..MaxRows : \E df \in [1..n -> Rows] :
          etl = [NoEtl EXCEPT !.pc = "normalize", !.df = df, !.i = 1]

NextEtl ==
    \/ NormalizeRow
    \/ ValidateRow
    \/ ReturnFrames

SpecEtl == InitEtl /\ [][NextEtl]_vars

\* DataPipeline.run_pipeline on a products.csv of up to MaxRows rows, or on one
\* that cannot be read: the products step and the report
InitPipeline ==
    /\ NoEngine
    /\ environ = EnvOf("mock")
    /\ disk = [vectorstore |-> <<>>, distance |-> <<>>]
    /\ req = [r \in Handlers |-> Idle]
    /\ etl = [NoEtl EXCEPT !.pc = "load"]

NextPipeline ==
    \/ LoadProducts
    \/ NormalizeRow
    \/ ValidateRow
    \/ ReturnFrames
    \/ GenerateReport

SpecPipeline == InitPipeline /\ [][NextPipeline]_vars

\* normalize_vendors called on every list of up to MaxVendors vendor records
InitVendors ==
    /\ NoEngine
    /\ environ = EnvOf("mock")
    /\ disk = [vectorstore |-> <<>>, distance |-> <<>>]
    /\ req = [r \in Handlers |-> Idle]
    /\ \E n \in 0..MaxVendors : \E vendors_data \in [1..n -> VendorRecords] :
          etl = [NoEtl EXCEPT !.pc = "frame", !.df = vendors_data, !.i = 1]

NextVendors ==
    \/ GroupVendors
    \/ ConsolidateVendor
    \/ ValidateVendor
    \/ ReturnVendors

SpecVendors == InitVendors /\ [][NextVendors]_vars

---------------------------------------------------------------------------
(* Properties *)

FailureKinds == {"ConnectionFailure", "AuthFailure", "Timeout", "UnsupportedBackend"}

\* the ask call of handler r has ended
AskEnded(r) == req[r].kind = "ask" /\ req[r].ask # "none"

\* the content tokens a text mentions
ContentTokens(text) == Range(text) \cap Range(ContentNames)

\* C1: DocumentRetriever.ask never raises to its caller, whatever the vector
\* search, the lexical search or the generation backend do.
C1_AskNeverRaises ==
    \A r \in Handlers : req[r].kind = "ask" => req[r].ask # "raised"

\* C2: with at least one chunk retrieved, a failure of the primary backend of
\* any kind is absorbed: ask returns, and its answer is the fallback's text,
\* which draws on the first two retrieved chunks and on no others.
C2_BackendFailureAbsorbed ==
    \A r \in Handlers :
        (AskEnded(r) /\ req[r].primary \in FailureKinds) =>
            /\ req[r].ask = "returned"
            /\ req[r].fallback
            /\ req[r].contexts # <<>>
            /\ Len(req[r].sources) = Len(req[r].contexts)
            /\ ContentTokens(req[r].answer) =
                  {req[r].contexts[j].content :
                      j \in 1..Min(MockContexts, Len(req[r].contexts))}

\* C2 witness: a timed-out primary backend, two chunks retrieved, ask returned
C2_Witness ==
    \E r \in Handlers :
        /\ AskEnded(r) /\ req[r].ask = "returned"
        /\ req[r].primary = "Timeout"
        /\ req[r].fallback
        /\ Len(req[r].contexts) = MockContexts

\* C3: whenever the sources of an ask result are non-empty, the answer holds a
\* recognizable page citation, whatever the page of the top source is.
C3_AnswerCitesPage ==
    \A r \in Handlers :
        (AskEnded(r) /\ req[r].ask = "returned" /\ req[r].sources # <<>>) =>
            has_citation(req[r].answer)

\* C4: ask returns at most k sources and search at most k results, k being
\* the k of the request, and never more than the corpus holds.
C4_AtMostK ==
    \A r \in Handlers :
        /\ (AskEnded(r) /\ req[r].ask = "returned") =>
              /\ Len(req[r].sources) <= req[r].k
              /\ Len(req[r].sources) <= Len(vectorstore)
        /\ (req[r].kind = "search" /\ req[r].status = "200") =>
              /\ Len(req[r].contexts) <= req[r].k
              /\ Len(req[r].contexts) <= Len(vectorstore)

\* C4 witness: an /ask with top_k = 1 on a larger corpus answered with one source
C4_Witness ==
    \E r \in Handlers :
        /\ AskEnded(r) /\ req[r].ask = "returned"
        /\ req[r].k = 1
        /\ Len(req[r].sources) = 1
        /\ Len(vectorstore) > 1

\* C5: when retrieval yields no chunk, ask returns the fixed "not found" answer
\* with no sources, and neither the primary backend nor the fallback runs.
C5_NotFoundShortCircuit ==
    \A r \in Handlers :
        /\ req[r].pc \in {"generate", "fallback", "finish"} => req[r].contexts # <<>>
        /\ (AskEnded(r) /\ req[r].ask = "returned" /\ req[r].contexts = <<>>) =>
              /\ req[r].answer = NotFound
              /\ req[r].sources = <<>>
              /\ req[r].primary = "none"
              /\ ~req[r].fallback

\* C5 witness: ask has returned on an empty corpus
C5_Witness ==
    \E r \in Handlers :
        /\ AskEnded(r) /\ req[r].ask = "returned"
        /\ Len(vectorstore) = 0
        /\ req[r].answer = NotFound
        /\ req[r].sources = <<>>

\* C6: the per-query k is never written into shared engine state: no step of
\* handling a request changes the engine's top_k.
C6_TopKNeverWritten == [][top_k' = top_k]_vars

C8_FusedScoreInRange ==
    \A r \in Handlers :
        (req[r].kind = "rank" /\ req[r].pc = "done" /\ use_hybrid /\ bm25) =>
            \A j \in 1..Len(req[r].contexts) :
                /\ req[r].contexts[j].score >= 0
                /\ req[r].contexts[j].score <= (bm25_weight + semantic_weight) * One

ScoreIn(scores, idx) == IF idx \in DOMAIN scores THEN scores[idx] ELSE 0

\* C10: the candidates of the fusion are the union of the two channels' ids, and
\* each one's fused score is w_lex * lexical + w_sem * semantic with weights
\* 0.3 and 0.7 (3 and 7 in units of 1/WeightDen) and a missing channel score
\* taken as 0; a candidate with
\* semantic 1.0 and lexical 0.0 (0.7) ranks above one with lexical 1.0 and
\* semantic 0.0 (0.3).
C10_FusionFormula ==
    \A r \in Handlers :
        (req[r].kind = "rank" /\ req[r].pc \in {"format", "done"} /\ use_hybrid /\ bm25) =>
            LET hs == req[r].hybrid_scores
                lex(i) == ScoreIn(req[r].bm25_scores, i)
                sem(i) == ScoreIn(req[r].semantic_scores, i)
            IN /\ {hs[j][1] : j \in 1..Len(hs)} =
                      DOMAIN req[r].bm25_scores \cup DOMAIN req[r].semantic_scores
               /\ Len(hs) = Cardinality({hs[j][1] : j \in 1..Len(hs)})
               /\ \A j \in 1..Len(hs) :
                     /\ hs[j][2] = 3 * lex(hs[j][1]) + 7 * sem(hs[j][1])
                     /\ (lex(hs[j][1]) = One /\ sem(hs[j][1]) = 0) => hs[j][2] = 3 * One
                     /\ (lex(hs[j][1]) = 0 /\ sem(hs[j][1]) = One) => hs[j][2] = 7 * One
               /\ \A a, b \in 1..Len(hs) :
                     (/\ lex(hs[a][1]) = One /\ sem(hs[a][1]) = 0
                      /\ lex(hs[b][1]) = 0 /\ sem(hs[b][1]) = One) => b < a

\* C10 witness: a fused list holding a lexical-only candidate (1.0, missing)
\* and a semantic-only candidate (missing, 1.0)
C10_Witness ==
    \E r \in Handlers :
        /\ req[r].kind = "rank" /\ req[r].pc = "done"
        /\ \E a, b \in 1..Len(req[r].hybrid_scores) :
              LET ia == req[r].hybrid_scores[a][1]
                  ib == req[r].hybrid_scores[b][1]
              IN /\ ia \notin DOMAIN req[r].semantic_scores
                 /\ ScoreIn(req[r].bm25_scores, ia) = One
                 /\ ib \notin DOMAIN req[r].bm25_scores
                 /\ ScoreIn(req[r].semantic_scores, ib) = One
                 /\ b < a

\* C11: in hybrid search the semantic score of every vector hit is credited to
\* the chunk the hit was retrieved for and to no other chunk, also when two
\* chunks have equal content, and no vector hit is missing from the fusion.
C11_HitsKeyedByChunkId ==
    \A r \in Handlers :
        (req[r].kind = "rank" /\ req[r].pc \in {"fuse", "format", "done"}) =>
            LET hits == similarity_search_with_score(
                            Min(req[r].k * 3, Len(documents_list)))
                sem == req[r].semantic_scores
            IN /\ DOMAIN sem = {hits[j][1] : j \in 1..Len(hits)}
               /\ \A j \in 1..Len(hits) :
                     /\ hits[j][1] \in DOMAIN sem
                     /\ sem[hits[j][1]] = One \div (1 + hits[j][2])

\* C12: after construction with the lexical channel enabled, the corpus cache
\* enumerates the vector index completely, every chunk once and at its own id,
\* for every corpus size, and it is as long as the lexical index.
C12_CacheEnumeratesIndex ==
    (retriever # 0 /\ use_hybrid /\ bm25) =>
        /\ Len(documents_list) = Len(vectorstore)
        /\ \A i \in 1..Len(vectorstore) :
              i <= Len(documents_list) /\ documents_list[i] = vectorstore[i]
        /\ Len(bm25_raw) = Len(documents_list)

\* C13: when building the corpus cache or the lexical index failed at
\* construction, the engine exists all the same, its lexical channel is off in
\* every later state, and every query answered since holds exactly the vector
\* index's ranking: the nearest chunks in the index's order, each with the
\* index's own value as score and no fusion applied.
C13_DegradedForLife ==
    (req[2].kind = "init" /\ req[2].failure \in {"enumerate", "empty"}) =>
        /\ retriever # 0
        /\ ~use_hybrid
        /\ ~bm25
        /\ \A r \in Handlers :
              ((req[r].kind = "search" /\ req[r].status = "200")
                  \/ (AskEnded(r) /\ req[r].ask = "returned" /\ req[r].answer # NotFound)) =>
                 LET hits == similarity_search_with_score(req[r].used_k)
                 IN /\ Len(req[r].contexts) = Len(hits)
                    /\ \A j \in 1..Len(hits) :
                          /\ req[r].contexts[j].idx = hits[j][1]
                          /\ req[r].contexts[j].content = vectorstore[hits[j][1]].content
                          /\ req[r].contexts[j].score = hits[j][2] * One * WeightDen

\* C13 witness: the index could not be enumerated at construction, and a later
\* search returned two chunks, the second chunk of the index first
C13_Witness ==
    /\ req[2].kind = "init" /\ req[2].failure = "enumerate"
    /\ req[1].kind = "search" /\ req[1].status = "200"
    /\ Len(req[1].contexts) = 2
    /\ req[1].contexts[1].idx = 2

\* C14: no step of an ask or search call, successful or failed, changes the
\* corpus cache, the lexical index, the hybrid flag, the fusion weights or the
\* generation backend configuration (provider and model) of the engine.
C14_SharedStructuresReadOnly ==
    [][<<documents_list, bm25, bm25_raw, use_hybrid, weights, llm_provider, model_name>>'
          = <<documents_list, bm25, bm25_raw, use_hybrid, weights, llm_provider, model_name>>]_vars

\* C14 witness: on a hybrid engine with a remote backend, a request has ended
\* in a retrieval failure after an /ask wrote its k into the engine
C14_Witness ==
    /\ use_hybrid /\ bm25 /\ documents_list # <<>>
    /\ llm_provider \in {"ollama", "openai", "bard"}
    /\ top_k # DefaultTopK
    /\ req[1].status = "500"
    /\ req[1].failure \in {"vector", "lexical"}

\* C15: the score reported for a retrieved chunk is a similarity, a monotonic
\* transform of the vector distance: in semantic-only mode a returned chunk
\* nearer to the question never has a lower reported score than a farther
\* one, and in hybrid mode the same holds of the semantic scores that enter
\* the fusion, which are 1/(1+distance).
C15_ScoreIsSimilarity ==
    \A r \in Handlers :
        (req[r].kind = "rank" /\ req[r].pc = "done") =>
            IF use_hybrid /\ bm25
            THEN LET sem == req[r].semantic_scores
                 IN \A a, b \in DOMAIN sem :
                       /\ sem[a] = One \div (1 + distance[a])
                       /\ distance[a] < distance[b] => sem[a] >= sem[b]
            ELSE LET res == req[r].contexts
                 IN \A a, b \in 1..Len(res) :
                       distance[res[a].idx] < distance[res[b].idx] =>
                           res[a].score >= res[b].score

\* C16: every source snippet of an ask result is at most 200 characters long,
\* whether the chunk's content is shorter than, equal to or longer than 200
\* characters.
C16_SnippetAtMost200 ==
    \A r \in Handlers :
        (AskEnded(r) /\ req[r].ask = "returned") =>
            \A j \in 1..Len(req[r].sources) :
                SnippetLen(req[r].sources[j].snippet) <= 200

\* C17: ask and search run the same ranking: an ask call that was given a k
\* (and whose retrieval did not fail) returns, and its sources are, one for one
\* and in order, the results of search with that k: same page, same score,
\* snippet cut from the same content; an ask call without k does the same
\* with the engine's top_k.
C17_AskRanksAsSearch ==
    \A r \in Handlers :
        (req[r].kind = "call" /\ req[r].pc = "done"
            /\ req[r].failure \notin {"vector", "lexical"}) =>
            LET k == IF req[r].k = 0 THEN top_k ELSE req[r].k
                results == search(k)
            IN /\ req[r].ask = "returned"
               /\ Len(req[r].sources) = Len(results)
               /\ \A j \in 1..Len(results) :
                     /\ req[r].sources[j].page = results[j].page
                     /\ req[r].sources[j].score = results[j].score
                     /\ req[r].sources[j].snippet.of = results[j].content

\* C18: re-ingestion never changes the vector index, corpus cache or lexical
\* index of an engine object: they change only in the one step that binds the
\* live reference to a newly built object, the objects built earlier stay as
\* they were, and every query, also one in flight while the index is rebuilt
\* and replaced, holds chunks of one engine object only, the one it was
\* entered on.
C18_ReingestReplacesAtomically ==
    /\ [](\A r \in Handlers :
            (req[r].kind \in {"ask", "search"} /\ req[r].contexts # <<>>) =>
                /\ req[r].self \in 1..Len(instances)
                /\ \A j \in 1..Len(req[r].contexts) :
                      LET c == req[r].contexts[j]
                          index == instances[req[r].self].vectorstore
                      IN /\ c.idx \in 1..Len(index)
                         /\ c.content = index[c.idx].content
                         /\ c.page = PageField(index[c.idx]))
    /\ [][/\ retriever' = retriever =>
                <<vectorstore, distance, documents_list, bm25, bm25_raw, use_hybrid>>'
                    = <<vectorstore, distance, documents_list, bm25, bm25_raw, use_hybrid>>
          /\ \A i \in 1..Len(instances) :
                i <= Len(instances') /\ instances'[i] = instances[i]
          /\ retriever' = Len(instances')]_vars

\* C18 witness: an /ask entered on the first engine is still being answered
\* after /ingest has bound the live reference to the second engine
C18_Witness ==
    /\ req[1].kind = "ask" /\ req[1].pc = "finish"
    /\ req[1].self = 1
    /\ retriever = 2
    /\ req[2].kind = "ingest" /\ req[2].pc \in {"unlink", "done"}
    /\ vectorstore # instances[1].vectorstore

\* the rows of df that ended in clean_data, in quarantine_data
CleanRows == {etl.clean_data[j].idx : j \in 1..Len(etl.clean_data)}

QuarantinedRows == {etl.quarantine_data[j].idx : j \in 1..Len(etl.quarantine_data)}

\* C19: a product row whose launch_date is present and is not a calendar date
\* (month outside 1..12 or day outside the month, as in "2024-13-45"), once
\* normalize_products has handled it, is in the quarantine output and not in
\* the clean output.
C19_InvalidDateQuarantined ==
    \A j \in 1..Len(etl.df) :
        LET date == etl.df[j].launch_date
        IN (/\ j < etl.i
            /\ date.sep \in {"-", "/"}
            /\ ~(date.m \in 1..12 /\ date.d \in 1..DaysIn(date.y, date.m))) =>
               (j \in QuarantinedRows /\ j \notin CleanRows)

\* C20: a product row whose dimensions_mm is incomplete (fewer than three
\* parts, or a blank among its three parts, as in "90x60x") gets no parsed
\* dimensions and, once handled, is in the quarantine output and not in the
\* clean output.
C20_IncompleteDimensionsRejected ==
    \A j \in 1..Len(etl.df) :
        LET dims == etl.df[j].dimensions_mm
        IN (/\ Len(dims) \in 1..3
            /\ (Len(dims) < 3 \/ \E p \in 1..Len(dims) : dims[p].tag # "num")) =>
               /\ (etl.pc = "validate" /\ j = etl.i) =>
                      /\ ~etl.normalized.length_mm.some
                      /\ ~etl.normalized.width_mm.some
                      /\ ~etl.normalized.height_mm.some
               /\ j < etl.i => (j \in QuarantinedRows /\ j \notin CleanRows)

\* C20 witness: the row with "90x60x" and nothing else wrong has been handled
\* and sits in quarantine after a failed schema validation
C20_Witness ==
    \E q \in 1..Len(etl.quarantine_data) :
        /\ etl.quarantine_data[q].row =
              [BaseRow EXCEPT !.dimensions_mm = <<Num(90), Num(60), Blank>>]
        /\ etl.quarantine_data[q].reason = "Schema validation failed"
        /\ etl.pc = "returned"

\* the vendor codes in the clean and in the quarantine vendor table
CleanCodes == {etl.clean_data[j].vendor_code : j \in 1..Len(etl.clean_data)}

QuarantinedCodes == {etl.quarantine_data[j].vendor_code : j \in 1..Len(etl.quarantine_data)}

\* C21: the clean vendor table never holds a vendor_code twice, also when
\* several input records share one code, and when normalize_vendors has
\* returned every vendor_code of the input is in exactly one of the clean
\* table and the quarantine table.
C21_VendorCodesPartitioned ==
    /\ \A a, b \in 1..Len(etl.clean_data) :
          etl.clean_data[a].vendor_code = etl.clean_data[b].vendor_code => a = b
    /\ etl.pc = "returned" =>
          \A j \in 1..Len(etl.df) :
              etl.df[j].vendor_code # "nan" =>
                  (etl.df[j].vendor_code \in CleanCodes)
                      # (etl.df[j].vendor_code \in QuarantinedCodes)

\* C21 witness: two records sharing the code V-01 were given, and the tables
\* returned hold that code once, in the clean table
C21_Witness ==
    /\ etl.pc = "returned"
    /\ Len(etl.df) = 2
    /\ etl.df[1].vendor_code = "V-01" /\ etl.df[2].vendor_code = "V-01"
    /\ etl.df[1].name # etl.df[2].name
    /\ Len(etl.clean_data) = 1
    /\ etl.clean_data[1].vendor_code = "V-01"
    /\ etl.quarantine_data = <<>>

\* C22: in an ask call that retrieved at least one chunk, the primary backend
\* is dispatched exactly once (its outcome is written once, in the generate
\* step), the fallback generator runs at most once and only right after the
\* primary dispatch failed, never after it succeeded, and the call, once it
\* reaches generation, always ends with ask having returned.
C22_DispatchOrder ==
    /\ [](\A r \in Handlers :
            (req[r].kind = "call" /\ req[r].contexts # <<>>) =>
                /\ req[r].fallback => req[r].primary \in FailureKinds
                /\ req[r].pc = "fallback" => req[r].primary \in FailureKinds
                /\ req[r].pc \in {"finish", "restore", "done"} =>
                      (req[r].primary = "ok") # req[r].fallback
                /\ req[r].pc = "done" => req[r].ask = "returned")
    /\ [][\A r \in Handlers :
            /\ (req[r]'.primary # req[r].primary /\ req[r]'.primary # "none") =>
                  (req[r].pc = "generate" /\ req[r].primary = "none")
            /\ (req[r]'.fallback /\ ~req[r].fallback) =>
                  (req[r].pc = "fallback" /\ req[r].primary \in FailureKinds)
            /\ req[r].pc = "fallback" => (req[r]'.pc = "finish" /\ req[r]'.fallback)]_vars
    /\ \A r \in Handlers :
          (req[r].pc = "generate") ~> (req[r].pc = "done" /\ req[r].ask = "returned")

\* C22 witness: a direct ask call whose primary backend refused the
\* credentials has returned with the fallback's answer
C22_Witness ==
    /\ req[1].kind = "call" /\ req[1].pc = "done"
    /\ req[1].ask = "returned"
    /\ req[1].primary = "AuthFailure"
    /\ req[1].fallback
    /\ req[1].contexts # <<>>

\* C23: the fused list of hybrid search is sorted by fused score descending,
\* two candidates with equal fused scores stand in corpus order (the lower
\* chunk id first), and the list returned is the first k of that list.
C23_TiesInCorpusOrder ==
    \A r \in Handlers :
        (req[r].kind = "rank" /\ req[r].pc = "done" /\ use_hybrid /\ bm25) =>
            LET hs == req[r].hybrid_scores
            IN /\ \A a, b \in 1..Len(hs) :
                     a < b => \/ hs[a][2] > hs[b][2]
                              \/ (hs[a][2] = hs[b][2] /\ hs[a][1] < hs[b][1])
               /\ Len(req[r].contexts) = Min(req[r].k, Len(hs))
               /\ \A j \in 1..Len(req[r].contexts) :
                     /\ req[r].contexts[j].idx = hs[j][1]
                     /\ req[r].contexts[j].score = hs[j][2]

\* C24: the lexical search made by a hybrid search returns at most as many
\* (chunk id, score) pairs as it was asked for, in descending score order,
\* every score between 0 and 1, the first score 1 when the largest raw score
\* is positive, and every score 0 when the largest raw score is 0.
C24_LexicalNormalized ==
    \A r \in Handlers :
        (req[r].kind = "rank" /\ req[r].pc \in {"fuse", "format", "done"}
            /\ use_hybrid /\ bm25) =>
            LET initial_k == Min(req[r].k * OverFetch, Len(documents_list))
                pairs == _search_bm25(initial_k)
                top == CHOOSE m \in Range(bm25_raw) : \A x \in Range(bm25_raw) : x <= m
            IN /\ BM25Scores(pairs) = req[r].bm25_scores
               /\ Len(pairs) <= initial_k
               /\ \A a, b \in 1..Len(pairs) : a < b => pairs[a][2] >= pairs[b][2]
               /\ \A j \in 1..Len(pairs) : pairs[j][2] >= 0 /\ pairs[j][2] <= One
               /\ top > 0 => pairs[1][2] = One
               /\ top = 0 => \A j \in 1..Len(pairs) : pairs[j][2] = 0

\* C25 as stated: before fusing, each channel is queried for 3k candidates,
\* for every k >= 1 and every corpus size.
C25_ChannelsQueriedFor3k ==
    \A r \in Handlers :
        (req[r].kind = "rank" /\ req[r].pc \in {"fuse", "format", "done"}
            /\ use_hybrid /\ bm25) =>
            /\ req[r].initial_k = 3 * req[r].k
            /\ req[r].bm25_scores = BM25Scores(_search_bm25(3 * req[r].k))
            /\ req[r].semantic_scores =
                  SemanticScores(similarity_search_with_score(3 * req[r].k))

\* C25 amended: before fusing, each channel is queried for the same number of
\* candidates, 3k or the length of the corpus cache when that is smaller.
C25_ChannelsQueriedForClamped3k ==
    \A r \in Handlers :
        (req[r].kind = "rank" /\ req[r].pc \in {"fuse", "format", "done"}
            /\ use_hybrid /\ bm25) =>
            LET n == Len(documents_list)
                asked == IF 3 * req[r].k <= n THEN 3 * req[r].k ELSE n
            IN /\ req[r].initial_k = asked
               /\ req[r].bm25_scores = BM25Scores(_search_bm25(asked))
               /\ req[r].semantic_scores =
                     SemanticScores(similarity_search_with_score(asked))

\* C25 witness: a hybrid search with k = 1 on four chunks asked each channel
\* for three candidates and the lexical channel returned three
C25_Witness ==
    \E r \in Handlers :
        /\ req[r].kind = "rank" /\ req[r].pc = "done"
        /\ use_hybrid /\ bm25
        /\ req[r].k = 1
        /\ Len(documents_list) = 4
        /\ req[r].initial_k = 3
        /\ Cardinality(DOMAIN req[r].bm25_scores) = 3

\* C26: the citation step of ask leaves the answer unchanged when it already
\* holds a page citation (in any letter case) and would leave it unchanged
\* with no sources; otherwise it returns the answer with a citation of the
\* page of the first source prepended; and applying it again to what it
\* returned changes nothing.
C26_EnforcerIdempotent ==
    [][\A r \in Handlers :
          (req[r].pc = "finish" /\ req[r]'.pc # "finish") =>
              LET answer == req[r].answer
                  sources == req[r].contexts
                  out == req[r]'.answer
              IN /\ _validate_citations(answer, <<>>) = answer
                 /\ has_citation(answer) => out = answer
                 /\ ~has_citation(answer) =>
                       out = <<"Conforme", "página", sources[1].page>> \o answer
                 /\ _validate_citations(out, sources) = out]_vars

\* C27: once an /ask request has finished, with 200 or with an error response
\* after retrieval or the construction of the response raised, the engine's
\* top_k is the value it had before the request, which is the configured
\* default.
C27_TopKRestoredAfterAsk ==
    \A r \in Handlers :
        (req[r].kind = "ask" /\ req[r].pc = "done") =>
            /\ top_k = req[r].original_top_k
            /\ top_k = DefaultTopK

\* the live engine: the reference, the objects built so far and the fields the
\* live object answers requests from
LiveEngine == <<retriever, instances, vectorstore, distance, documents_list, bm25,
                bm25_raw, use_hybrid, weights, llm_provider, model_name, top_k>>

\* C28: an /ingest request that fails while saving the upload, ingesting the
\* document or constructing the new engine ends with an error response and
\* has changed, in none of its steps, the live engine reference or the
\* engine it designates; a search finished on the live engine holds what the
\* live engine returns for its k, before and after the failed ingest.
C28_FailedIngestKeepsEngine ==
    /\ [][(req[2]'.kind = "ingest" /\ req[2]' # req[2] /\ req[2]'.pc # "unlink"
             /\ req[2]'.failure # "unlink") => LiveEngine' = LiveEngine]_vars
    /\ [][(req[2]'.failure \in {"save", "ingest", "construct"} /\ req[2].failure = "none") =>
             (req[2].pc \in {"read", "construct"} /\ LiveEngine' = LiveEngine)]_vars
    /\ [](\A r \in Handlers :
            /\ (req[r].kind = "ingest" /\ req[r].failure \in {"save", "ingest", "construct"}) =>
                  (req[r].status = "500" /\ req[r].pc = "done")
            /\ (req[r].kind = "search" /\ req[r].status = "200" /\ req[r].self = retriever) =>
                  req[r].contexts = search(req[r].k))

\* C28 witness: an /ingest failed in the constructor after it had written the
\* new index to disk, and a /search is answered by the first engine
C28_Witness ==
    /\ req[2].kind = "ingest" /\ req[2].failure = "construct" /\ req[2].status = "500"
    /\ disk.vectorstore # vectorstore
    /\ retriever = 1
    /\ req[1].kind = "search" /\ req[1].status = "200" /\ req[1].self = 1
    /\ req[1].contexts # <<>>

\* C29: after any number of successful /ingest operations the live engine has
\* the generation backend kind and the model that the server selected when it
\* started.
C29_BackendKeptAcrossIngest ==
    retriever # 0 =>
        /\ llm_provider = instances[1].llm_provider
        /\ model_name = instances[1].model_name
        /\ instances[retriever].llm_provider = instances[1].llm_provider
        /\ instances[retriever].model_name = instances[1].model_name

\* C30: when normalize_products has returned, every input row is in exactly
\* one of the clean and the quarantine output, so the two outputs together
\* are as long as the input; and the report's products_processed is the
\* number of rows read from products.csv.
C30_ProductsPartitioned ==
    /\ etl.pc \in {"returned", "reported"} =>
          /\ CleanRows \cap QuarantinedRows = {}
          /\ CleanRows \cup QuarantinedRows = 1..Len(etl.df)
          /\ Len(etl.clean_data) + Len(etl.quarantine_data) = Len(etl.df)
    /\ etl.pc = "reported" => etl.products_processed = Len(etl.df)

====
